---- MODULE Spec2Model ----
(***************************************************************************)
(* Model of the two FastMCP tool sets of flybyflo/ai-chat-app:             *)
(*   src/mcp-test-server/main.py           "Calculator Pro"                *)
(*   src/mcp-test-server/main-enhanced.py  "Demo"                          *)
(* Every tool is a Python function.  A tool call is modelled in two steps: *)
(* the transport invokes the function (a Call action), and the body runs  *)
(* to its return or to an uncaught exception (Execute).  The module-level  *)
(* names INT_MIN, INT_MAX, FLOAT_MIN, FLOAT_MAX are Python globals, hence  *)
(* state.                                                                  *)
(*                                                                         *)
(* Integers are Python ints (unbounded); the native word is scaled from 64 *)
(* bits to WordBits.  Floats are IEEE-754 binary floats scaled from        *)
(* binary64 to MantBits bits of precision and Binades exponent values,     *)
(* with signed zeros, subnormals, infinities, NaN and round-to-nearest-    *)
(* even.  A finite float is sign * n * 2^-FracBits, n a natural number     *)
(* ("units").                                                              *)
(***************************************************************************)
EXTENDS Integers, Sequences, FiniteSets, TLC

\* ---------------------------------------------------------------- bounds
WordBits == 3
MantBits == 2
Binades == 5
FracBits == 1
MaxPowExp == 2
MaxText == 2
MaxNow == 1
MaxThreads == 2

\* Defaults of random_number's parameters.
DefaultMin == 1
DefaultMax == 100

VARIABLES INT_MIN, INT_MAX, FLOAT_MIN, FLOAT_MAX, calls

vars == <<INT_MIN, INT_MAX, FLOAT_MIN, FLOAT_MAX, calls>>
globals == <<INT_MIN, INT_MAX, FLOAT_MIN, FLOAT_MAX>>

RECURSIVE Pow2(_)
Pow2(n) == IF n = 0 THEN 1 ELSE 2 * Pow2(n - 1)

\* sys.maxsize of the scaled platform.
sys_maxsize == Pow2(WordBits - 1) - 1

Threads == 1..MaxThreads

\* ------------------------------------------------------- outcomes of a call
\* A function returns a number, an error string, or a text; or an exception
\* leaves it uncaught.  Library calls end Ok(v) or Raise(exc).
Num(v) == [tag |-> "num", v |-> v]
Err(msg) == [tag |-> "err", msg |-> msg]
Text(s) == [tag |-> "text", s |-> s]
Raise(exc) == [tag |-> "raise", exc |-> exc]
Ok(v) == [tag |-> "ok", v |-> v]
NoRes == [tag |-> "none"]

\* Propagation of an exception no except clause of the function catches.
Uncaught(r) == Raise(r.exc)

\* ------------------------------------------------------------------ floats
One == Pow2(FracBits)
MantMax == Pow2(MantBits) - 1
MaxUnits == MantMax * Pow2(Binades - 1)
\* The first power of two beyond the largest finite value.
TopUnits == Pow2(MantBits + Binades - 1)

\* Magnitudes (in units) of the finite floats: m * 2^j with m of MantBits bits.
FinMag == {m * Pow2(j) : m \in 0..MantMax, j \in 0..(Binades - 1)}

Fin(s, n) == [k |-> "fin", s |-> s, n |-> n]
Inf(s) == [k |-> "inf", s |-> s, n |-> 0]
NaN == [k |-> "nan", s |-> 1, n |-> 0]

Floats == {Fin(s, n) : s \in {1, -1}, n \in FinMag} \cup {Inf(1), Inf(-1), NaN}

IsNaN(x) == x.k = "nan"
IsInf(x) == x.k = "inf"
IsFinite(x) == x.k = "fin"
IsZero(x) == x.k = "fin" /\ x.n = 0

\* Python's ==, < on floats: NaN compares unequal and unordered, -0.0 == 0.0.
FEq(x, y) ==
    /\ ~IsNaN(x) /\ ~IsNaN(y)
    /\ \/ IsZero(x) /\ IsZero(y)
       \/ x = y
FLt(x, y) ==
    /\ ~IsNaN(x) /\ ~IsNaN(y)
    /\ ~FEq(x, y)
    /\ CASE IsInf(x) -> x.s = -1
         [] IsInf(y) -> y.s = 1
         [] OTHER -> x.s * x.n < y.s * y.n
FGe(x, y) == FEq(x, y) \/ FLt(y, x)

FZero == Fin(1, 0)
FOne == Fin(1, One)
FNeg(x) == IF IsNaN(x) THEN x ELSE [x EXCEPT !.s = -x.s]
FAbs(x) == IF IsNaN(x) THEN x ELSE [x EXCEPT !.s = 1]

\* ------------------------------------------------- round to nearest, ties to even
\* The exact non-negative magnitude X (in units) of a result is given as
\* form "rat": X = N / D, or form "sqrt": X * X = N / D.
\* GtHalf: X > m / 2.  EqHalf: X = m / 2.
\* The comparisons A > B * C and A = B * C of naturals, without forming B * C.
GtProd(A, B, C) ==
    IF B = 0 \/ C = 0 THEN A > 0 ELSE A > 0 /\ C <= (A - 1) \div B
EqProd(A, B, C) ==
    IF B = 0 THEN A = 0 ELSE A % B = 0 /\ A \div B = C
GtHalf(form, N, D, m) ==
    IF form = "rat" THEN GtProd(2 * N, m, D) ELSE GtProd(4 * N, m * m, D)
EqHalf(form, N, D, m) ==
    IF form = "rat" THEN EqProd(2 * N, m, D) ELSE EqProd(4 * N, m * m, D)

Min(S) == CHOOSE x \in S : \A y \in S : x <= y
Max(S) == CHOOSE x \in S : \A y \in S : x >= y

\* The float after r; TopUnits after the largest finite one.
NextMag(r) == Min({q \in FinMag \cup {TopUnits} : q > r})
MantOdd(r) == (r \div (NextMag(r) - r)) % 2 = 1

\* X rounds to a value above r.
RoundsAbove(form, N, D, r) ==
    LET m == r + NextMag(r)
    IN  \/ GtHalf(form, N, D, m)
        \/ EqHalf(form, N, D, m) /\ MantOdd(r)

\* The rounded magnitude, TopUnits when X overflows the format.
RoundMag(form, N, D) ==
    Max({0} \cup {NextMag(r) : r \in {q \in FinMag : RoundsAbove(form, N, D, q)}})

FRound(s, form, N, D) ==
    LET r == RoundMag(form, N, D)
    IN  IF r = TopUnits THEN Inf(s) ELSE Fin(s, r)

\* ------------------------------------------------------ float arithmetic
\* Python's float * float: IEEE multiplication, never raises.
FMul(x, y) ==
    CASE IsNaN(x) \/ IsNaN(y) -> NaN
      [] (IsInf(x) /\ IsZero(y)) \/ (IsZero(x) /\ IsInf(y)) -> NaN
      [] IsInf(x) \/ IsInf(y) -> Inf(x.s * y.s)
      [] OTHER -> FRound(x.s * y.s, "rat", x.n * y.n, One)

\* Python's float / float: ZeroDivisionError on a zero divisor of either sign,
\* also for a NaN or infinite dividend; otherwise IEEE division.
py_truediv(x, y) ==
    CASE IsZero(y) -> Raise("ZeroDivisionError")
      [] IsNaN(x) \/ IsNaN(y) -> Ok(NaN)
      [] IsInf(x) /\ IsInf(y) -> Ok(NaN)
      [] IsInf(x) -> Ok(Inf(x.s * y.s))
      [] IsInf(y) -> Ok(Fin(x.s * y.s, 0))
      [] OTHER -> Ok(FRound(x.s * y.s, "rat", x.n * One, y.n))

\* math.sqrt: ValueError below zero, sqrt(-0.0) = -0.0, correctly rounded.
math_sqrt(x) ==
    CASE IsNaN(x) -> Ok(NaN)
      [] IsZero(x) -> Ok(x)
      [] x.s = -1 -> Raise("ValueError")
      [] IsInf(x) -> Ok(x)
      [] OTHER -> Ok(FRound(1, "sqrt", x.n * One, 1))

\* ---------------------------------------------------------------- math.pow
\* Powers beyond SatCap are held at SatCap: such a numerator is far above the
\* overflow threshold, such a denominator far below half a unit.
SatCap == Pow2(28)
RECURSIVE SatPow(_, _)
SatPow(a, p) ==
    IF p = 0 THEN 1
    ELSE LET r == SatPow(a, p - 1)
         IN  IF a > 0 /\ r > SatCap \div a THEN SatCap ELSE r * a

IsInteger(y) == IsFinite(y) /\ y.n % One = 0
IsOddInteger(y) == IsInteger(y) /\ (y.n \div One) % 2 = 1

\* The exponents the model raises to: the special values and the multiples
\* of one half up to MaxPowExp in magnitude.
PowExponents ==
    {y \in Floats : IsFinite(y) => y.n <= MaxPowExp * One /\ (2 * y.n) % One = 0}

\* |x| ^ y for finite non-zero x and finite non-zero y in PowExponents,
\* rounded; p is |y| in halves.
PowMag(x, y) ==
    LET a == x.n
        p == (2 * y.n) \div One
        q == p \div 2
        s == IF x.s = -1 /\ IsOddInteger(y) THEN -1 ELSE 1
    IN  CASE p % 2 = 0 /\ y.s = 1 ->
               FRound(s, "rat", SatPow(a, q), SatPow(One, q - 1))
          [] p % 2 = 0 /\ y.s = -1 ->
               FRound(s, "rat", SatPow(One, q + 1), SatPow(a, q))
          [] p % 2 = 1 /\ y.s = 1 ->
               IF p = 1 THEN FRound(s, "sqrt", a * One, 1)
               ELSE FRound(s, "sqrt", SatPow(a, p), SatPow(One, p - 2))
          [] OTHER ->
               FRound(s, "sqrt", SatPow(One, p + 2), SatPow(a, p))

\* C's pow on finite operands, then CPython's errno mapping: a NaN result is
\* ValueError, an infinite one ValueError for a zero base and OverflowError
\* otherwise.
pow_finite(x, y) ==
    CASE IsZero(y) -> Ok(FOne)
      [] IsZero(x) /\ y.s = -1 -> Raise("ValueError")
      [] IsZero(x) -> Ok(IF IsOddInteger(y) THEN x ELSE FZero)
      [] x.s = -1 /\ ~IsInteger(y) -> Raise("ValueError")
      [] OTHER ->
           LET r == PowMag(x, y)
           IN  IF IsInf(r) THEN Raise("OverflowError") ELSE Ok(r)

\* math.pow: the IEEE special cases are decided before C's pow is called and
\* never raise.
math_pow(x, y) ==
    CASE IsNaN(x) -> Ok(IF IsZero(y) THEN FOne ELSE x)
      [] IsNaN(y) -> Ok(IF FEq(x, FOne) THEN FOne ELSE y)
      [] IsInf(x) ->
           Ok(CASE FLt(FZero, y) -> IF IsOddInteger(y) THEN x ELSE FAbs(x)
                [] IsZero(y) -> FOne
                [] OTHER -> IF IsOddInteger(y) THEN Fin(x.s, 0) ELSE FZero)
      [] IsInf(y) ->
           Ok(CASE FEq(FAbs(x), FOne) -> FOne
                [] y.s = 1 /\ FLt(FOne, FAbs(x)) -> y
                [] y.s = -1 /\ FLt(FAbs(x), FOne) -> FNeg(y)
                [] OTHER -> FZero)
      [] OTHER -> pow_finite(x, y)

\* ------------------------------------------------------------ trigonometry
\* pi / 180 and the series are evaluated in fixed point with TrigScale steps
\* per unit; the angles of the scaled format stay below one radian.
TrigScale == 10000
PiScaled == 31416
DegToRadNum == 17453
DegToRadDen == 1000000

\* math.pi, rounded to the format.
math_pi == FRound(1, "rat", PiScaled * One, TrigScale)

\* math.radians: x * (pi / 180), rounded once.
math_radians(x) ==
    IF IsFinite(x) THEN FRound(x.s, "rat", x.n * DegToRadNum, DegToRadDen) ELSE x

Fx(r) == (r.n * TrigScale) \div One
FxMul(a, b) == (a * b) \div TrigScale
SinFx(R) ==
    LET R2 == FxMul(R, R)
        R3 == FxMul(R2, R)
        R5 == FxMul(R3, R2)
        R7 == FxMul(R5, R2)
    IN  R - (R3 \div 6) + (R5 \div 120) - (R7 \div 5040)
CosFx(R) ==
    LET R2 == FxMul(R, R)
        R4 == FxMul(R2, R2)
        R6 == FxMul(R4, R2)
        R8 == FxMul(R6, R2)
    IN  TrigScale - (R2 \div 2) + (R4 \div 24) - (R6 \div 720) + (R8 \div 40320)

\* math.sin, math.cos, math.tan: ValueError at an infinity, NaN for NaN.
math_sin(r) ==
    CASE IsNaN(r) -> Ok(r)
      [] IsInf(r) -> Raise("ValueError")
      [] OTHER -> Ok(FRound(r.s, "rat", SinFx(Fx(r)) * One, TrigScale))
math_cos(r) ==
    CASE IsNaN(r) -> Ok(r)
      [] IsInf(r) -> Raise("ValueError")
      [] OTHER -> Ok(FRound(1, "rat", CosFx(Fx(r)) * One, TrigScale))
math_tan(r) ==
    CASE IsNaN(r) -> Ok(r)
      [] IsInf(r) -> Raise("ValueError")
      [] OTHER -> Ok(FRound(r.s, "rat", SinFx(Fx(r)) * One, CosFx(Fx(r))))

\* ------------------------------------------------- Calculator Pro (main.py)
\* Variant: the upper bound itself is refused (>= for >).
check_integer_bounds_inclusive(value, operation) ==
    IF value < INT_MIN
      THEN Err("Error: Underflow occurred in " \o operation \o ". Result is too small.")
    ELSE IF value >= INT_MAX
      THEN Err("Error: Overflow occurred in " \o operation \o ". Result is too large.")
    ELSE Num(value)

check_integer_bounds(value, operation) ==
    IF value < INT_MIN
      THEN Err("Error: Underflow occurred in " \o operation \o ". Result is too small.")
    ELSE IF value > INT_MAX
      THEN Err("Error: Overflow occurred in " \o operation \o ". Result is too large.")
    ELSE Num(value)

\* Variant: only positive infinity is caught.
check_float_bounds_overflow_only(value, operation) ==
    IF FEq(value, Inf(1))
      THEN Err("Error: Overflow occurred in " \o operation \o ". Result is too large.")
    ELSE Num(value)

check_float_bounds(value, operation) ==
    IF FEq(value, Inf(-1))
      THEN Err("Error: Underflow occurred in " \o operation \o ". Result is too small.")
    ELSE IF FEq(value, Inf(1))
      THEN Err("Error: Overflow occurred in " \o operation \o ". Result is too large.")
    ELSE Num(value)

\* Python ints never overflow: the except OverflowError clauses of add,
\* subtract, multiply and modulo are unreachable.
add(a, b) == check_integer_bounds(a + b, "addition")

subtract(a, b) == check_integer_bounds(a - b, "subtraction")

multiply(a, b) == check_integer_bounds(a * b, "multiplication")

\* Variant: the guard tells the zeros apart and lets -0.0 through.
divide_positive_zero_guard(numerator, denominator) ==
    IF denominator = FZero THEN Err("Error: Cannot divide by zero.")
    ELSE LET r == py_truediv(numerator, denominator)
         IN  CASE r.tag = "ok" -> check_float_bounds(r.v, "division")
               [] r.exc = "OverflowError" -> Err("Error: Overflow occurred in division.")
               [] OTHER -> Uncaught(r)

divide(numerator, denominator) ==
    IF FEq(denominator, FZero) THEN Err("Error: Cannot divide by zero.")
    ELSE LET r == py_truediv(numerator, denominator)
         IN  CASE r.tag = "ok" -> check_float_bounds(r.v, "division")
               [] r.exc = "OverflowError" -> Err("Error: Overflow occurred in division.")
               [] OTHER -> Uncaught(r)

power(base, exponent) ==
    LET r == math_pow(base, exponent)
    IN  CASE r.tag = "ok" -> check_float_bounds(r.v, "exponentiation")
          [] r.exc = "OverflowError" ->
               Err("Error: Overflow occurred in exponentiation. Result is too large.")
          [] OTHER -> Uncaught(r)

\* Variant: the guard refuses zero as well (<= for <).
square_root_nonpositive_guard(number) ==
    IF FLt(number, FZero) \/ FEq(number, FZero)
      THEN Err("Error: Cannot calculate the square root of a negative number.")
    ELSE LET r == math_sqrt(number)
         IN  CASE r.tag = "ok" -> Num(r.v)
               [] r.exc = "OverflowError" ->
                    Err("Error: Overflow occurred in square root calculation.")
               [] OTHER -> Uncaught(r)

square_root(number) ==
    IF FLt(number, FZero)
      THEN Err("Error: Cannot calculate the square root of a negative number.")
    ELSE LET r == math_sqrt(number)
         IN  CASE r.tag = "ok" -> Num(r.v)
               [] r.exc = "OverflowError" ->
                    Err("Error: Overflow occurred in square root calculation.")
               [] OTHER -> Uncaught(r)

\* Python's int % int for a non-zero divisor: the sign follows the divisor.
PyMod(a, b) == IF b > 0 THEN a % b ELSE -((-a) % (-b))

\* Variant: no guard; Python's % raises ZeroDivisionError on a zero divisor.
modulo_unguarded(a, b) ==
    IF b = 0 THEN Raise("ZeroDivisionError") ELSE Num(PyMod(a, b))

modulo(a, b) ==
    IF b = 0 THEN Err("Error: Cannot perform modulo with zero divisor.")
    ELSE Num(PyMod(a, b))

sine(angle_degrees) ==
    LET r == math_sin(math_radians(angle_degrees))
    IN  CASE r.tag = "ok" -> check_float_bounds(r.v, "sine calculation")
          [] r.exc = "OverflowError" -> Err("Error: Overflow occurred in sine calculation.")
          [] OTHER -> Uncaught(r)

cosine(angle_degrees) ==
    LET r == math_cos(math_radians(angle_degrees))
    IN  CASE r.tag = "ok" -> check_float_bounds(r.v, "cosine calculation")
          [] r.exc = "OverflowError" -> Err("Error: Overflow occurred in cosine calculation.")
          [] OTHER -> Uncaught(r)

tangent(angle_degrees) ==
    LET r == math_tan(math_radians(angle_degrees))
    IN  CASE r.tag = "ok" -> check_float_bounds(r.v, "tangent calculation")
          [] r.exc = "OverflowError" ->
               Err("Error: Overflow occurred in tangent calculation.")
          [] r.exc = "ValueError" -> Err("Error: Invalid input for tangent calculation.")
          [] OTHER -> Uncaught(r)

\* ------------------------------------------------- Demo (main-enhanced.py)
demo_add(a, b) == Num(a + b)

demo_multiply(a, b) == Num(a * b)

\* random.randint(a, b): any integer of a..b, ValueError for an empty range.
\* Variant: random.randrange(a, b), which leaves b out.
random_randrange(a, b) ==
    IF a >= b THEN {Raise("ValueError")} ELSE {Ok(r) : r \in a..(b - 1)}

random_randint(a, b) ==
    IF a > b THEN {Raise("ValueError")} ELSE {Ok(r) : r \in a..b}

\* The possible outcomes of random_number for the arguments supplied
\* positionally; a parameter not supplied takes its default.
random_number(args) ==
    LET min_val == IF Len(args) >= 1 THEN args[1] ELSE DefaultMin
        max_val == IF Len(args) >= 2 THEN args[2] ELSE DefaultMax
    IN  {IF r.tag = "ok" THEN Num(r.v) ELSE Uncaught(r) :
            r \in random_randint(min_val, max_val)}

\* datetime.now() is read from the environment: any second of the first
\* MaxNow + 1 of an hour.  strftime("%H:%M:%S") of it; the date is left out.
Digit == <<"0", "1", "2", "3", "4", "5", "6", "7", "8", "9">>
TwoDigits(n) == Digit[(n \div 10) + 1] \o Digit[(n % 10) + 1]
strftime(now) == "00:" \o TwoDigits(now \div 60) \o ":" \o TwoDigits(now % 60)
current_time == {Text(strftime(now)) : now \in 0..MaxNow}

calculate_circle_area(radius) == Num(FMul(FMul(math_pi, radius), radius))

\* str.upper on texts over a lower-case letter, an upper-case letter and a digit.
Alphabet == {"a", "B", "1"}
UpperChar(c) == IF c = "a" THEN "A" ELSE c
to_uppercase(text) == Text([i \in 1..Len(text) |-> UpperChar(text[i])])

\* ------------------------------------------------------------ tool calls
NoExcept == {"random_number", "current_time"}

\* The outcomes a call can have in the current state.
Outcomes(op, args) ==
    CASE op = "add" -> {add(args[1], args[2])}
      [] op = "subtract" -> {subtract(args[1], args[2])}
      [] op = "multiply" -> {multiply(args[1], args[2])}
      [] op = "divide" -> {divide(args[1], args[2])}
      [] op = "power" -> {power(args[1], args[2])}
      [] op = "square_root" -> {square_root(args[1])}
      [] op = "modulo" -> {modulo(args[1], args[2])}
      [] op = "sine" -> {sine(args[1])}
      [] op = "cosine" -> {cosine(args[1])}
      [] op = "tangent" -> {tangent(args[1])}
      [] op = "demo_add" -> {demo_add(args[1], args[2])}
      [] op = "demo_multiply" -> {demo_multiply(args[1], args[2])}
      [] op = "random_number" -> random_number(args)
      [] op = "current_time" -> current_time
      [] op = "calculate_circle_area" -> {calculate_circle_area(args[1])}
      [] op = "to_uppercase" -> {to_uppercase(args[1])}

Idle == [st |-> "idle", op |-> "", args |-> <<>>, res |-> NoRes]

\* The record of thread t once the transport has invoked tool op with args.
Invoked(t, op, args) ==
    [calls EXCEPT ![t] = [st |-> "running", op |-> op, args |-> args, res |-> NoRes]]

\* Variant: add lowers INT_MAX by one each time it runs.
Execute_add_narrows_bound(t) ==
    /\ calls[t].st = "running"
    /\ \E r \in Outcomes(calls[t].op, calls[t].args) :
          calls' = [calls EXCEPT ![t].st = "done", ![t].res = r]
    /\ INT_MAX' = IF calls[t].op = "add" THEN INT_MAX - 1 ELSE INT_MAX
    /\ UNCHANGED <<INT_MIN, FLOAT_MIN, FLOAT_MAX>>

\* Variant: a float result is kept in FLOAT_MAX as the largest value seen.
Execute_records_maximum(t) ==
    /\ calls[t].st = "running"
    /\ \E r \in Outcomes(calls[t].op, calls[t].args) :
          /\ calls' = [calls EXCEPT ![t].st = "done", ![t].res = r]
          /\ FLOAT_MAX' = IF r.tag = "num" /\ calls[t].op = "square_root"
                            THEN r.v ELSE FLOAT_MAX
    /\ UNCHANGED <<INT_MIN, INT_MAX, FLOAT_MIN>>

\* The body of the invoked function runs: it reads the module globals and
\* returns (or raises); it assigns to no global.
Execute(t) ==
    /\ calls[t].st = "running"
    /\ \E r \in Outcomes(calls[t].op, calls[t].args) :
          calls' = [calls EXCEPT ![t].st = "done", ![t].res = r]
    /\ UNCHANGED globals

\* The transport relays the outcome to the client; the thread is free again.
Deliver(t) ==
    /\ calls[t].st = "done"
    /\ calls' = [calls EXCEPT ![t] = Idle]
    /\ UNCHANGED globals

Call_add(t, A) ==
    /\ calls[t].st = "idle"
    /\ \E args \in A.int2 : calls' = Invoked(t, "add", args)
    /\ UNCHANGED globals
Call_subtract(t, A) ==
    /\ calls[t].st = "idle"
    /\ \E args \in A.int2 : calls' = Invoked(t, "subtract", args)
    /\ UNCHANGED globals
Call_multiply(t, A) ==
    /\ calls[t].st = "idle"
    /\ \E args \in A.int2 : calls' = Invoked(t, "multiply", args)
    /\ UNCHANGED globals
Call_divide(t, A) ==
    /\ calls[t].st = "idle"
    /\ \E args \in A.float2 : calls' = Invoked(t, "divide", args)
    /\ UNCHANGED globals
Call_power(t, A) ==
    /\ calls[t].st = "idle"
    /\ \E args \in A.pow : calls' = Invoked(t, "power", args)
    /\ UNCHANGED globals
Call_square_root(t, A) ==
    /\ calls[t].st = "idle"
    /\ \E args \in A.float1 : calls' = Invoked(t, "square_root", args)
    /\ UNCHANGED globals
Call_modulo(t, A) ==
    /\ calls[t].st = "idle"
    /\ \E args \in A.int2 : calls' = Invoked(t, "modulo", args)
    /\ UNCHANGED globals
Call_sine(t, A) ==
    /\ calls[t].st = "idle"
    /\ \E args \in A.float1 : calls' = Invoked(t, "sine", args)
    /\ UNCHANGED globals
Call_cosine(t, A) ==
    /\ calls[t].st = "idle"
    /\ \E args \in A.float1 : calls' = Invoked(t, "cosine", args)
    /\ UNCHANGED globals
Call_tangent(t, A) ==
    /\ calls[t].st = "idle"
    /\ \E args \in A.float1 : calls' = Invoked(t, "tangent", args)
    /\ UNCHANGED globals
Call_demo_add(t, A) ==
    /\ calls[t].st = "idle"
    /\ \E args \in A.int2 : calls' = Invoked(t, "demo_add", args)
    /\ UNCHANGED globals
Call_demo_multiply(t, A) ==
    /\ calls[t].st = "idle"
    /\ \E args \in A.int2 : calls' = Invoked(t, "demo_multiply", args)
    /\ UNCHANGED globals
Call_random_number(t, A) ==
    /\ calls[t].st = "idle"
    /\ \E args \in A.random : calls' = Invoked(t, "random_number", args)
    /\ UNCHANGED globals
Call_current_time(t) ==
    /\ calls[t].st = "idle"
    /\ calls' = Invoked(t, "current_time", <<>>)
    /\ UNCHANGED globals
Call_calculate_circle_area(t, A) ==
    /\ calls[t].st = "idle"
    /\ \E args \in A.float1 : calls' = Invoked(t, "calculate_circle_area", args)
    /\ UNCHANGED globals
Call_to_uppercase(t, A) ==
    /\ calls[t].st = "idle"
    /\ \E args \in A.text : calls' = Invoked(t, "to_uppercase", args)
    /\ UNCHANGED globals

\* ------------------------------------------------------------- input sets
\* Python ints are unbounded: arguments range one bit beyond the native word.
IntInputs == (2 * (-sys_maxsize - 1))..(2 * sys_maxsize + 1)
Texts == UNION {[1..n -> Alphabet] : n \in 0..MaxText}

\* Every argument list of the scaled types; random_number with no, one or
\* two positional arguments.
AllArgs ==
    [int2 |-> IntInputs \X IntInputs,
     float2 |-> Floats \X Floats,
     pow |-> Floats \X PowExponents,
     float1 |-> {<<x>> : x \in Floats},
     text |-> {<<s>> : s \in Texts},
     random |-> {<<>>} \cup {<<a>> : a \in IntInputs} \cup (IntInputs \X IntInputs)]

\* The argument lists of the concurrent specification: results at and beyond
\* the integer bounds, a zero divisor, a domain error and an infinity.
SampleArgs ==
    [int2 |-> {<<sys_maxsize, 0>>, <<-sys_maxsize - 1, -1>>},
     float2 |-> {<<Fin(-1, One), Fin(1, One \div 2)>>, <<Inf(1), FZero>>},
     pow |-> {<<Fin(-1, One), Fin(1, One \div 2)>>, <<Inf(1), FZero>>},
     float1 |-> {<<FOne>>, <<Inf(1)>>},
     text |-> {<<(<<"a", "B">>)>>},
     random |-> {<<0, 1>>}]

\* ----------------------------------------------------------- specifications
\* Module initialisation (main.py lines 13-16); no call has been made.
Init ==
    /\ INT_MIN = -sys_maxsize - 1
    /\ INT_MAX = sys_maxsize
    /\ FLOAT_MIN = Fin(-1, MaxUnits)
    /\ FLOAT_MAX = Fin(1, MaxUnits)
    /\ calls = [t \in Threads |-> Idle]

Call(t, A) ==
    \/ Call_add(t, A)
    \/ Call_subtract(t, A)
    \/ Call_multiply(t, A)
    \/ Call_divide(t, A)
    \/ Call_power(t, A)
    \/ Call_square_root(t, A)
    \/ Call_modulo(t, A)
    \/ Call_sine(t, A)
    \/ Call_cosine(t, A)
    \/ Call_tangent(t, A)
    \/ Call_demo_add(t, A)
    \/ Call_demo_multiply(t, A)
    \/ Call_random_number(t, A)
    \/ Call_current_time(t)
    \/ Call_calculate_circle_area(t, A)
    \/ Call_to_uppercase(t, A)

\* One client, one call at a time, every argument of the scaled types.
Next ==
    \/ Call(1, AllArgs)
    \/ Execute(1)
    \/ Deliver(1)

Spec == Init /\ [][Next]_vars

\* Calls on every thread of the transport, interleaved, over sample arguments.
NextConc ==
    \E t \in Threads :
        \/ Call(t, SampleArgs)
        \/ Execute(t)
        \/ Deliver(t)

SpecConc == Init /\ [][NextConc]_vars

\* ------------------------------------------------------------------ claims
Done(t, op) == calls[t].st = "done" /\ calls[t].op = op
InNative(a) == -sys_maxsize - 1 <= a /\ a <= sys_maxsize

ExactResult(op, a, b) ==
    CASE op = "add" -> a + b
      [] op = "subtract" -> a - b
      [] op = "multiply" -> a * b
OperationName(op) ==
    CASE op = "add" -> "addition"
      [] op = "subtract" -> "subtraction"
      [] op = "multiply" -> "multiplication"

\* C1: for operands within [INT_MIN, INT_MAX], add, subtract and multiply
\* return the exact result when it lies within [INT_MIN, INT_MAX], the overflow
\* error string naming the operation when it is above INT_MAX, and the
\* underflow error string when it is below INT_MIN.
C1_IntegerBounds ==
    \A t \in Threads : \A op \in {"add", "subtract", "multiply"} :
        (Done(t, op) /\ InNative(calls[t].args[1]) /\ InNative(calls[t].args[2])) =>
            LET v == ExactResult(op, calls[t].args[1], calls[t].args[2])
                res == calls[t].res
            IN  /\ InNative(v) => res = Num(v)
                /\ v > sys_maxsize =>
                     res = Err("Error: Overflow occurred in " \o OperationName(op)
                               \o ". Result is too large.")
                /\ v < -sys_maxsize - 1 =>
                     res = Err("Error: Underflow occurred in " \o OperationName(op)
                               \o ". Result is too small.")

\* multiply(INT_MIN, -1) = INT_MAX + 1 has been answered with the overflow error.
C1_Witness ==
    /\ Done(1, "multiply")
    /\ calls[1].args = <<-sys_maxsize - 1, -1>>
    /\ calls[1].res = Err("Error: Overflow occurred in multiplication. Result is too large.")

CalculatorOps ==
    {"add", "subtract", "multiply", "divide", "power", "square_root", "modulo",
     "sine", "cosine", "tangent"}

\* C2: every calculator operation ends by returning a number or an error
\* string; no exception leaves the operation.
C2_NoFault ==
    \A t \in Threads :
        (calls[t].st = "done" /\ calls[t].op \in CalculatorOps) =>
            calls[t].res.tag \in {"num", "err"}

\* C3: divide returns "Error: Cannot divide by zero." for every numerator when
\* the denominator is zero of either sign, and never for a non-zero denominator.
C3_DivideByZero ==
    \A t \in Threads :
        Done(t, "divide") =>
            LET d == calls[t].args[2]
            IN  (d.k = "fin" /\ d.n = 0) <=>
                    calls[t].res = Err("Error: Cannot divide by zero.")

\* divide(NaN, -0.0) has been answered with the divide-by-zero error.
C3_Witness ==
    /\ Done(1, "divide")
    /\ calls[1].args = <<NaN, Fin(-1, 0)>>
    /\ calls[1].res = Err("Error: Cannot divide by zero.")

\* C4: modulo returns "Error: Cannot perform modulo with zero divisor." for
\* every dividend when the divisor is zero, and never for a non-zero divisor.
C4_ModuloZero ==
    \A t \in Threads :
        Done(t, "modulo") =>
            (calls[t].args[2] = 0 <=>
                calls[t].res = Err("Error: Cannot perform modulo with zero divisor."))

\* modulo(INT_MIN, 0) has been answered with the zero-divisor error.
C4_Witness ==
    /\ Done(1, "modulo")
    /\ calls[1].args = <<-sys_maxsize - 1, 0>>
    /\ calls[1].res = Err("Error: Cannot perform modulo with zero divisor.")

NegativeRootError == Err("Error: Cannot calculate the square root of a negative number.")

\* C5 as stated: below zero square_root returns the negative-number error; from
\* zero up it returns a non-negative number r with r * r = number.
C5_ExactSquare ==
    \A t \in Threads :
        Done(t, "square_root") =>
            LET x == calls[t].args[1]
                res == calls[t].res
            IN  /\ FLt(x, FZero) => res = NegativeRootError
                /\ FGe(x, FZero) =>
                     /\ res.tag = "num"
                     /\ FGe(res.v, FZero)
                     /\ FEq(FMul(res.v, res.v), x)

\* r is a float nearest to the exact square root of the finite x.
NearestRoot(r, x) ==
    /\ IsFinite(r)
    /\ \A q \in FinMag :
          /\ q < r.n => (r.n + q) * (r.n + q) <= 4 * x.n * One
          /\ q > r.n => (r.n + q) * (r.n + q) >= 4 * x.n * One

\* C5 amended: below zero square_root returns the negative-number error; from
\* zero up it returns a non-negative number r, the float nearest to the exact
\* root (infinity for infinity), so that r * r = number when the root is a
\* float and differs from it by rounding otherwise.
C5_NearestRoot ==
    \A t \in Threads :
        Done(t, "square_root") =>
            LET x == calls[t].args[1]
                res == calls[t].res
            IN  /\ FLt(x, FZero) => res = NegativeRootError
                /\ FGe(x, FZero) =>
                     /\ res.tag = "num"
                     /\ FGe(res.v, FZero)
                     /\ IsInf(x) => res.v = x
                     /\ IsFinite(x) => NearestRoot(res.v, x)
                     /\ (IsFinite(x) /\ \E q \in FinMag : q * q = x.n * One) =>
                            res.v.n * res.v.n = x.n * One

\* square_root of a finite number from zero up has returned an r whose square
\* is not the number.
C5_Witness ==
    /\ Done(1, "square_root")
    /\ IsFinite(calls[1].args[1])
    /\ FGe(calls[1].args[1], FZero)
    /\ calls[1].res.tag = "num"
    /\ ~FEq(FMul(calls[1].res.v, calls[1].res.v), calls[1].args[1])

\* What check_float_bounds is to make of the value raw computed for operation.
Bounded(raw, operation) ==
    CASE raw = Inf(-1) ->
           Err("Error: Underflow occurred in " \o operation \o ". Result is too small.")
      [] raw = Inf(1) ->
           Err("Error: Overflow occurred in " \o operation \o ". Result is too large.")
      [] OTHER -> Num(raw)

\* C6: the float bounds check turns negative infinity into the underflow error
\* and positive infinity into the overflow error and passes every other value,
\* NaN included; divide, power, sine, cosine and tangent never return an
\* infinite number.
C6_FloatBounds ==
    \A t \in Threads :
        /\ \A op \in {"divide", "power", "sine", "cosine", "tangent"} :
              Done(t, op) => ~(calls[t].res.tag = "num" /\ IsInf(calls[t].res.v))
        /\ Done(t, "divide") =>
              LET raw == py_truediv(calls[t].args[1], calls[t].args[2])
              IN  raw.tag = "ok" => calls[t].res = Bounded(raw.v, "division")
        /\ Done(t, "power") =>
              LET raw == math_pow(calls[t].args[1], calls[t].args[2])
              IN  raw.tag = "ok" => calls[t].res = Bounded(raw.v, "exponentiation")

\* A division of finite numbers whose quotient is negative infinity has been
\* answered with the underflow error.
C6_Witness ==
    /\ Done(1, "divide")
    /\ IsFinite(calls[1].args[1]) /\ IsFinite(calls[1].args[2])
    /\ calls[1].res = Err("Error: Underflow occurred in division. Result is too small.")

\* C7: two completed calls of the same operation other than random_number and
\* current_time with the same arguments have the same outcome, whatever calls
\* were made in between.
C7_Deterministic ==
    \A t1, t2 \in Threads :
        (/\ calls[t1].st = "done" /\ calls[t2].st = "done"
         /\ calls[t1].op = calls[t2].op
         /\ calls[t1].op \notin NoExcept
         /\ calls[t1].args = calls[t2].args) =>
            calls[t1].res = calls[t2].res

\* add(INT_MAX, 0) has completed on two threads.
C7_Witness ==
    /\ Done(1, "add") /\ Done(2, "add")
    /\ calls[1].args = <<sys_maxsize, 0>>
    /\ calls[2].args = <<sys_maxsize, 0>>

\* C8: under every interleaving the module globals keep the values of their
\* initialisation and every completed call has an outcome the call has when
\* run alone.
C8_NoSharedState ==
    /\ INT_MIN = -sys_maxsize - 1
    /\ INT_MAX = sys_maxsize
    /\ FLOAT_MIN = Fin(-1, MaxUnits)
    /\ FLOAT_MAX = Fin(1, MaxUnits)
    /\ \A t \in Threads :
          calls[t].st = "done" => calls[t].res \in Outcomes(calls[t].op, calls[t].args)

\* square_root completed on one thread while subtract, invoked before it, is
\* still running on another.
C8_Witness ==
    /\ Done(1, "square_root")
    /\ calls[2].st = "running" /\ calls[2].op = "subtract"

\* C9: for min_val <= max_val, defaults 1 and 100 included, random_number can
\* return min_val and can return max_val, returns only numbers of
\* min_val..max_val, and returns min_val when the two are equal.
C9_RandomRange ==
    \A t \in Threads :
        calls[t].op = "random_number" =>
            LET args == calls[t].args
                lo == IF Len(args) >= 1 THEN args[1] ELSE 1
                hi == IF Len(args) >= 2 THEN args[2] ELSE 100
            IN  lo <= hi =>
                  /\ calls[t].st = "running" =>
                        {Num(lo), Num(hi)} \subseteq Outcomes("random_number", args)
                  /\ calls[t].st = "done" =>
                        /\ calls[t].res.tag = "num"
                        /\ lo <= calls[t].res.v /\ calls[t].res.v <= hi
                        /\ lo = hi => calls[t].res.v = lo

\* random_number(min_val, max_val) with min_val < max_val has returned max_val.
C9_Witness ==
    /\ Done(1, "random_number")
    /\ Len(calls[1].args) = 2
    /\ calls[1].args[1] < calls[1].args[2]
    /\ calls[1].res = Num(calls[1].args[2])

====
